---- MODULE Spec2Model ----
(***************************************************************************)
(* A model of eeglib: the DataReader / RamulatorReader classes of          *)
(* eeglib/data.py and read_events of eeglib/ramutil.py.                    *)
(*                                                                         *)
(* Numbers held in a data frame are exact rationals [num, den] in lowest   *)
(* terms (the code computes them in IEEE doubles; rounding is not          *)
(* modelled).  A data frame is the sequence of its columns, each a record  *)
(* [name, data]; pandas allows two columns to carry the same name, and so  *)
(* does the model.  None is the empty sequence and a given optional value  *)
(* x is <<x>>.  A dict is the sequence of its items <<key, value>> in      *)
(* iteration order.                                                        *)
(***************************************************************************)
EXTENDS Integers, Sequences, FiniteSets, TLC

\* Bounds of the model.
MaxSamples == 2     \* a timeseries file holds 0..MaxSamples samples per channel
MaxChannels == 2    \* a channels argument lists at most MaxChannels entries

None == <<>>
Some(x) == <<x>>

\* ------------------------------------------------------------ rationals
RECURSIVE GCD(_, _)
GCD(a, b) == IF b = 0 THEN a ELSE GCD(b, a % b)

Rat(n, d) == LET g == GCD(n, d) IN [num |-> n \div g, den |-> d \div g]
RInt(n) == [num |-> n, den |-> 1]
RAdd(a, b) == Rat(a.num * b.den + b.num * a.den, a.den * b.den)
RMul(a, b) == Rat(a.num * b.num, a.den * b.den)
RDivInt(a, k) == Rat(a.num, a.den * k)
RLe(a, b) == a.num * b.den <= b.num * a.den

\* ------------------------------------------------------------ data frames
EmptyFrame == <<>>

Columns(df) == [i \in 1..Len(df) |-> df[i].name]
NumRows(df) == IF df = EmptyFrame THEN 0 ELSE Len(df[1].data)
Positions(df, label) == {i \in 1..Len(df) : df[i].name = label}
HasColumn(df, label) == Positions(df, label) # {}

RECURSIVE Flatten(_)
Flatten(ss) == IF ss = <<>> THEN <<>> ELSE Head(ss) \o Flatten(Tail(ss))

\* The ascending sequence of the elements of a set of integers.
RECURSIVE Ascending(_)
Ascending(S) ==
    IF S = {} THEN <<>>
    ELSE LET m == CHOOSE x \in S : \A y \in S : x <= y
         IN <<m>> \o Ascending(S \ {m})

\* pd.DataFrame.from_items(items): one column per item, in item order; the
\* arrays must all have one length.
FromItems(items) ==
    IF \E i, j \in 1..Len(items) : Len(items[i][2]) # Len(items[j][2])
    THEN [err |-> "ValueError", df |-> EmptyFrame]
    ELSE [err |-> "", df |-> [i \in 1..Len(items) |->
                                [name |-> items[i][1], data |-> items[i][2]]]]

\* df[labels] with a list of labels: for each label in turn, every column
\* that carries it; KeyError when a label names no column.
SelectColumns(df, labels) ==
    IF \E k \in 1..Len(labels) : ~HasColumn(df, labels[k])
    THEN [err |-> "KeyError", df |-> EmptyFrame]
    ELSE [err |-> "", df |-> Flatten([k \in 1..Len(labels) |->
              [j \in 1..Cardinality(Positions(df, labels[k])) |->
                  df[Ascending(Positions(df, labels[k]))[j]]]])]

\* df[mask] with a boolean row mask: the rows where it is true, in order.
SelectRows(df, keep) ==
    [c \in 1..Len(df) |->
        [name |-> df[c].name,
         data |-> [j \in 1..Len(keep) |-> df[c].data[keep[j]]]]]

\* ------------------------------------------------------------ files
\* RamulatorReader._timeseries_file, _event_log_file, _log_file
timeseries_file == "eeg_timeseries.h5"
event_log_file == "event_log.json"
log_file == "output.log"
RequiredFiles == {timeseries_file, event_log_file, log_file}

\* The "ports" array of the timeseries file: the hardware port of each row.
FilePorts == <<5, 12>>
\* The "timeseries" array of a file with n samples per channel (row r,
\* sample i holds 10 r + i).
FileTimeseries(n) ==
    [r \in 1..Len(FilePorts) |-> [i \in 1..n |-> RInt(10 * r + i)]]
\* The parsed content of event_log.json.
FileEvents ==
    << <<"events", << <<"event_label", "event_value", "event_id">> >> >> >>

\* A path is modelled by what it names: nothing, a plain file, or a
\* directory holding some of the files, its timeseries file holding
\* numSamples samples per channel.
Dir(files, n) == [kind |-> "dir", files |-> files, numSamples |-> n]
FullDirs == {Dir(RequiredFiles, n) : n \in 0..MaxSamples}
PartDirs == {Dir(RequiredFiles \ {x}, IF x = timeseries_file THEN 0 ELSE 1) :
                x \in RequiredFiles} \cup {Dir({}, 0)}
NoDirs == {[kind |-> k, files |-> {}, numSamples |-> 0] : k \in {"missing", "file"}}
Paths == FullDirs \cup PartDirs \cup NoDirs


\* ------------------------------------------------------------ DataReader
Classes == {"DataReader", "RamulatorReader"}

SampleRate == 1000

\* np.linspace(start, stop, num): num points from start to stop, the end
\* point included.
Linspace(start, stop, num) ==
    [i \in 1..num |->
        IF num = 1 THEN start
        ELSE RAdd(start, RDivInt(RMul(RInt(i - 1), RAdd(stop, RMul(RInt(-1), start))),
                                 num - 1))]

\* times = np.linspace(0, dt * ts.shape[1], ts.shape[1]) with dt = 1 / 1000.
TimeAxis(n) == Linspace(RInt(0), RMul(Rat(1, SampleRate), RInt(n)), n)

\* "port%d" % port
PortName(port) == "port" \o ToString(port)

\* The rows (1-based positions) that indexing the file's arrays with
\* channels selects: all of them for None, else the listed zero-based rows.
SelectedRows(channels) ==
    IF channels = None THEN [k \in 1..Len(FilePorts) |-> k]
    ELSE [k \in 1..Len(channels[1]) |-> channels[1][k] + 1]

PortItemsByIndex(ports, ts) ==
    [n \in 1..Len(ports) |-> <<PortName(n - 1), ts[n]>>]

\* The column items read_timeseries builds from the arrays it has read:
\* ("port%d" % port, ts[n]) for n, port in enumerate(ports).
PortItems(ports, ts) ==
    [n \in 1..Len(ports) |-> <<PortName(ports[n]), ts[n]>>]

\* RamulatorReader.read_timeseries(path, channels): [err, df].
RamulatorRead(path, channels) ==
    IF path.kind # "dir" \/ timeseries_file \notin path.files
    THEN [err |-> "IOError", df |-> EmptyFrame]
    ELSE IF channels # None
            /\ \E k \in 1..Len(channels[1]) : channels[1][k] >= Len(FilePorts)
    THEN [err |-> "IndexError", df |-> EmptyFrame]
    ELSE LET rows == SelectedRows(channels)
             ports == [k \in 1..Len(rows) |-> FilePorts[rows[k]]]
             ts == [k \in 1..Len(rows) |-> FileTimeseries(path.numSamples)[rows[k]]]
         IN FromItems(<< <<"time", TimeAxis(path.numSamples)>> >> \o PortItems(ports, ts))

\* cls.read_timeseries(path, channels): the base class does not implement it.
ClassRead(c, path, channels) ==
    IF c = "DataReader" THEN [err |-> "NotImplementedError", df |-> EmptyFrame]
    ELSE RamulatorRead(path, channels)

HeldAfterReadEager(held, r) == r.df

\* self.timeseries after read_timeseries has returned or raised: the
\* assignment is the method's last statement before its return.
HeldAfterRead(held, r) == IF r.err = "" THEN r.df ELSE held

InTimeRangeOpen(t, tmin, tspan) ==
    IF tspan = None THEN RLe(tmin, t)
    ELSE RLe(tmin, t) /\ RLe(t, RAdd(tmin, tspan[1])) /\ t # RAdd(tmin, tspan[1])

\* The row test of get_time_range: time >= tmin, and time <= tmin + tspan
\* when tspan is given.
InTimeRange(t, tmin, tspan) ==
    IF tspan = None THEN RLe(tmin, t)
    ELSE RLe(tmin, t) /\ RLe(t, RAdd(tmin, tspan[1]))

NarrowColumnsNoTime(ts, label, channels) ==
    IF channels # None THEN SelectColumns(ts, channels[1])
    ELSE [err |-> "", df |-> ts]

\* The column narrowing of get_time_range.
NarrowColumns(ts, label, channels) ==
    IF channels # None THEN SelectColumns(ts, <<label>> \o channels[1])
    ELSE [err |-> "", df |-> ts]

\* DataReader.get_time_range(channels, tmin, tspan): [err, df].  df[label]
\* is a column only when exactly one column carries the label; with several
\* it is a frame, and indexing with the comparison of a frame is an
\* element mask, not a row selection: no row-filtered frame comes back.
get_time_range(ts, label, channels, tmin, tspan) ==
    LET sel == NarrowColumns(ts, label, channels)
        pos == Positions(sel.df, label)
    IN  IF sel.err # "" THEN sel
        ELSE IF pos = {} THEN [err |-> "KeyError", df |-> EmptyFrame]
        ELSE IF Cardinality(pos) > 1
        THEN [err |-> "AmbiguousTimeColumn", df |-> EmptyFrame]
        ELSE LET t == sel.df[CHOOSE i \in pos : TRUE].data
                 keep == Ascending({i \in 1..Len(t) : InTimeRange(t[i], tmin, tspan)})
             IN [err |-> "", df |-> SelectRows(sel.df, keep)]

DataItemsAllTimes(times, data) ==
    << <<"time", times>> >> \o [i \in 1..Len(data) |-> <<data[i][1], times>>]

\* The items from_data hands to from_items:
\* [("time", times)] + [(label, ts) for label, ts in data.items()].
DataItems(times, data) == << <<"time", times>> >> \o data

\* ------------------------------------------------------------ inputs
RECURSIVE SeqsUpTo(_, _)
SeqsUpTo(S, n) ==
    IF n = 0 THEN {<<>>}
    ELSE LET shorter == SeqsUpTo(S, n - 1)
         IN shorter \cup {Append(q, x) : q \in shorter, x \in S}

\* channels arguments of read_timeseries: None, a list of zero-based rows
\* of the file, or a row past the end of its arrays.
IndexLists ==
    {None, Some(<<Len(FilePorts)>>)}
    \cup {Some(q) : q \in SeqsUpTo(0..(Len(FilePorts) - 1), MaxChannels)}

\* (path, channels, indexing-mode keyword) of a read_timeseries call on a
\* reader; "" is no keyword.
ReadInputs ==
    {<<Dir(RequiredFiles, MaxSamples), ch, "">> : ch \in IndexLists}
    \cup {<<p, None, "">> : p \in Paths}
    \cup {<<Dir(RequiredFiles, MaxSamples), None, "one">>,
          <<Dir(RequiredFiles, MaxSamples), Some(<<1>>), "zero">>}

\* channels arguments of get_time_range: None or a list of column labels.
LabelLists ==
    {None, Some(<<>>), Some(<<"port5">>), Some(<<"port12", "port5">>),
     Some(<<"b", "a">>), Some(<<"port12", "port12">>)}

TimeLabels == {"time", "a"}
\* (tmin, tspan) arguments of get_time_range.
Windows ==
    {<<RInt(0), None>>, <<RInt(0), Some(RInt(1))>>,
     <<Rat(1, 500), Some(RInt(0))>>, <<RInt(1), Some(RInt(1))>>}

Range(n) == [i \in 1..n |-> RInt(i - 1)]
Reversed(q) == [i \in 1..Len(q) |-> q[Len(q) + 1 - i]]
TimesInputs == {Range(n) : n \in 0..(MaxSamples + 1)}
                  \cup {Reversed(Range(MaxSamples + 1))}
DataInputs(n) ==
    { << <<"a", Range(n)>>, <<"b", Reversed(Range(n))>> >>,
      << <<"b", Reversed(Range(n))>>, <<"a", Range(n)>> >>,
      << <<"a", Range(n + 1)>> >>,
      << <<"time", Reversed(Range(n))>> >> }

\* ------------------------------------------------------------ state
VARIABLES
    pc,            \* "new": no reader yet; "live": a reader; "failed": the
                   \* constructor raised, there is no reader
    cls,           \* the reader's class
    timeseries,    \* self.timeseries
    events,        \* self.events
    time_column,   \* self._time_column
    ret,           \* the last call: its arguments and what it returned or raised
    re_in,         \* read_events: its include-filter arguments
    re_out         \* read_events: what the call has produced

readerVars == <<pc, cls, timeseries, events, time_column, ret>>
eventVars == <<re_in, re_out>>
vars == <<pc, cls, timeseries, events, time_column, ret, re_in, re_out>>

Call(op) ==
    [op |-> op, err |-> "", df |-> EmptyFrame, path |-> None, channels |-> None,
     noread |-> FALSE, mode |-> "", tmin |-> RInt(0), tspan |-> None,
     times |-> <<>>, data |-> <<>>]

\* No reader yet; the fields hold what DataReader.__init__ first gives them.
NoReader ==
    /\ pc = "new"
    /\ cls = "DataReader"
    /\ timeseries = EmptyFrame
    /\ events = <<>>
    /\ time_column = "time"
    /\ ret = Call("")

\* cls(path, channels, noread, **kwargs); path is None or <<a path>>.  The
\* keyword arguments go to initialize, which ignores them.
Construct(c, path, channels, noread, mode) ==
    LET call == [Call("init") EXCEPT !.path = path, !.channels = channels,
                                     !.noread = noread, !.mode = mode]
    IN
    /\ pc = "new"
    /\ UNCHANGED eventVars
    /\ cls' = c
    /\ UNCHANGED <<events, time_column>>
    /\ IF path # None /\ path[1].kind # "dir"
       THEN /\ pc' = "failed"
            /\ ret' = [call EXCEPT !.err = "InvalidPathError"]
            /\ UNCHANGED timeseries
       ELSE IF ~noread /\ path # None
       THEN LET r == ClassRead(c, path[1], channels)
            IN /\ pc' = IF r.err = "" THEN "live" ELSE "failed"
               /\ timeseries' = HeldAfterRead(timeseries, r)
               /\ ret' = [call EXCEPT !.err = r.err, !.df = r.df]
       ELSE /\ pc' = "live"
            /\ ret' = call
            /\ UNCHANGED timeseries

\* DataReader.from_data(times, data)
FromData(times, data) ==
    LET r == FromItems(DataItems(times, data))
    IN
    /\ pc = "new"
    /\ UNCHANGED eventVars
    /\ cls' = "DataReader"
    /\ pc' = IF r.err = "" THEN "live" ELSE "failed"
    /\ timeseries' = IF r.err = "" THEN r.df ELSE timeseries
    /\ ret' = [Call("from_data") EXCEPT !.times = times, !.data = data,
                                        !.err = r.err, !.df = r.df]
    /\ UNCHANGED <<events, time_column>>

\* reader.read_timeseries(path, channels), or the same call with an
\* indexing-mode keyword, which the method does not accept.
ReadTimeseries(path, channels, mode) ==
    LET call == [Call("read_timeseries") EXCEPT !.path = Some(path),
                                                !.channels = channels, !.mode = mode]
        r == IF mode # "" THEN [err |-> "TypeError", df |-> EmptyFrame]
             ELSE ClassRead(cls, path, channels)
    IN
    /\ pc = "live"
    /\ UNCHANGED eventVars
    /\ timeseries' = HeldAfterRead(timeseries, r)
    /\ ret' = [call EXCEPT !.err = r.err, !.df = r.df]
    /\ UNCHANGED <<pc, cls, events, time_column>>

\* reader.get_time_range(channels, tmin, tspan)
GetTimeRange(channels, tmin, tspan) ==
    LET r == get_time_range(timeseries, time_column, channels, tmin, tspan)
    IN
    /\ pc = "live"
    /\ UNCHANGED eventVars
    /\ ret' = [Call("get_time_range") EXCEPT !.channels = channels, !.tmin = tmin,
                   !.tspan = tspan, !.err = r.err, !.df = r.df]
    /\ UNCHANGED <<pc, cls, timeseries, events, time_column>>

\* reader.time_column = new_label
SetTimeColumn(new_label) ==
    /\ pc = "live"
    /\ UNCHANGED eventVars
    /\ time_column' = new_label
    /\ ret' = Call("time_column")
    /\ UNCHANGED <<pc, cls, timeseries, events>>

\* reader.parse_events(path)
ParseEvents(path) ==
    LET call == [Call("parse_events") EXCEPT !.path = Some(path)]
    IN
    /\ pc = "live"
    /\ UNCHANGED eventVars
    /\ UNCHANGED <<pc, cls, timeseries, time_column>>
    /\ IF cls = "DataReader"
       THEN /\ ret' = [call EXCEPT !.err = "NotImplementedError"]
            /\ UNCHANGED events
       ELSE IF path.kind # "dir" \/ event_log_file \notin path.files
       THEN /\ ret' = [call EXCEPT !.err = "IOError"]
            /\ UNCHANGED events
       ELSE /\ events' = FileEvents
            /\ ret' = call

Next ==
    \/ \E c \in Classes, path \in {None} \cup {Some(p) : p \in Paths},
          channels \in IndexLists, noread \in BOOLEAN, mode \in {"", "zero", "one"} :
           Construct(c, path, channels, noread, mode)
    \/ \E times \in TimesInputs :
           \E data \in DataInputs(Len(times)) : FromData(times, data)
    \/ \E in \in ReadInputs : ReadTimeseries(in[1], in[2], in[3])
    \/ \E channels \in LabelLists, w \in Windows : GetTimeRange(channels, w[1], w[2])
    \/ \E new_label \in TimeLabels : SetTimeColumn(new_label)
    \/ \E path \in {Dir(RequiredFiles, MaxSamples), Dir(RequiredFiles \ {event_log_file}, 1)} :
           ParseEvents(path)

\* ------------------------------------------------------------ read_events
\* The "subjects" object of protocols/r1.json: subject -> "experiments" ->
\* experiment -> one more level of keys -> session key -> "task_events".
\* A session key is the string of its decimal digits.
Index ==
    << <<"R1001P",
         << <<"FR1",  << <<"sessions", << << <<"0">>, "R1001P/FR1/0.json">>,
                                          << <<"1">>, "R1001P/FR1/1.json">> >> >> >> >>,
            <<"PAL1", << <<"sessions", << << <<"0">>, "R1001P/PAL1/0.json">> >> >> >> >> >> >>,
       <<"R1002P",
         << <<"FR1",  << <<"sessions", << << <<"0">>, "R1002P/FR1/0.json">>,
                                          << <<"1", "0">>, "R1002P/FR1/10.json">> >> >> >> >> >> >> >>

\* The one row of each task-events file: its stim_list and stim_params
\* fields hold a list of numbers or something that is no list.
IsList(v) == v[1] = "list"
EventRow(file) ==
    [file |-> file,
     stim_list |-> IF file = "R1001P/FR1/1.json" THEN <<"list", <<3, 7>>>>
                   ELSE <<"scalar", <<>>>>,
     stim_params |-> IF file = "R1002P/FR1/0.json" THEN <<"list", <<>>>>
                     ELSE <<"scalar", <<>>>>]

\* int(session)
DigitValue(d) ==
    CASE d = "0" -> 0 [] d = "1" -> 1 [] d = "2" -> 2 [] d = "3" -> 3 [] d = "4" -> 4
      [] d = "5" -> 5 [] d = "6" -> 6 [] d = "7" -> 7 [] d = "8" -> 8 [] d = "9" -> 9
RECURSIVE IntOf(_)
IntOf(s) == IF Len(s) = 0 THEN 0
            ELSE 10 * IntOf(SubSeq(s, 1, Len(s) - 1)) + DigitValue(s[Len(s)])

\* json.dumps of a list of integers
RECURSIVE JoinInts(_)
JoinInts(q) ==
    IF Len(q) = 0 THEN ""
    ELSE IF Len(q) = 1 THEN ToString(q[1])
    ELSE ToString(q[1]) \o ", " \o JoinInts(Tail(q))
JsonDumps(q) == "[" \o JoinInts(q) \o "]"

\* x in lst
In(x, lst) == \E i \in 1..Len(lst) : lst[i] = x

valid_subject(subject, subjects_to_read) ==
    IF subjects_to_read = None THEN TRUE ELSE In(subject, subjects_to_read[1])

valid_experiment_any(exp, experiments_to_read) == TRUE

valid_experiment(exp, experiments_to_read) ==
    IF experiments_to_read = None THEN TRUE ELSE In(exp, experiments_to_read[1])

valid_session(sess, sessions_to_read) ==
    IF sessions_to_read = None THEN TRUE ELSE In(sess, sessions_to_read[1])

\* The loops of read_events that collect event_files, innermost first.
SessionFiles(sessions, in) ==
    Flatten([k \in 1..Len(sessions) |->
        IF valid_session(IntOf(sessions[k][1]), in.sessions_to_read)
        THEN <<sessions[k][2]>> ELSE <<>>])

ExperimentFiles(groups, in) ==
    Flatten([g \in 1..Len(groups) |-> SessionFiles(groups[g][2], in)])

SubjectFiles(experiments, in) ==
    Flatten([e \in 1..Len(experiments) |->
        IF valid_experiment(experiments[e][1], in.experiments_to_read)
        THEN ExperimentFiles(experiments[e][2], in) ELSE <<>>])

EventFiles(index, in) ==
    Flatten([s \in 1..Len(index) |->
        IF valid_subject(index[s][1], in.subjects_to_read)
        THEN SubjectFiles(index[s][2], in) ELSE <<>>])

\* events_df: the rows of the files read, in order, the two list-valued
\* fields re-serialized (json.dumps of a list, None of anything else).
EventsFrame(files) ==
    [k \in 1..Len(files) |->
        LET row == EventRow(files[k])
        IN [file |-> row.file,
            stim_list |-> IF IsList(row.stim_list)
                          THEN Some(JsonDumps(row.stim_list[2])) ELSE None,
            stim_params |-> IF IsList(row.stim_params)
                            THEN Some(JsonDumps(row.stim_params[2])) ELSE None]]

\* The include-filter arguments: None or a list.
SubjectFilters ==
    {None, Some(<<>>), Some(<<"R1001P">>), Some(<<"R1002P">>),
     Some(<<"R1002P", "R1001P">>), Some(<<"R1003P">>)}
ExperimentFilters ==
    {None, Some(<<>>), Some(<<"FR1">>), Some(<<"PAL1">>), Some(<<"FR1", "PAL1">>)}
SessionFilters ==
    {None, Some(<<>>), Some(<<0>>), Some(<<1>>), Some(<<10>>), Some(<<0, 1>>)}

NotRun == [done |-> FALSE, err |-> "", event_files |-> <<>>, events_df |-> <<>>]
NoFilters ==
    [subjects_to_read |-> None, experiments_to_read |-> None, sessions_to_read |-> None]

\* read_events(data_root, subjects_to_read, experiments_to_read,
\* sessions_to_read); pd.concat raises ValueError when given no frame.
ReadEvents ==
    LET files == EventFiles(Index, re_in)
    IN
    /\ ~re_out.done
    /\ re_out' = IF Len(files) = 0
                 THEN [done |-> TRUE, err |-> "ValueError", event_files |-> files,
                       events_df |-> <<>>]
                 ELSE [done |-> TRUE, err |-> "", event_files |-> files,
                       events_df |-> EventsFrame(files)]
    /\ UNCHANGED re_in
    /\ UNCHANGED readerVars

\* ------------------------------------------------------------ specifications
Init == NoReader /\ re_in = NoFilters /\ re_out = NotRun

\* The reader: construction and every call on it.
Spec == Init /\ [][Next]_vars

InitEvents ==
    /\ NoReader
    /\ re_in \in [subjects_to_read : SubjectFilters,
                  experiments_to_read : ExperimentFilters,
                  sessions_to_read : SessionFilters]
    /\ re_out = NotRun

NextEvents == ReadEvents

\* read_events applied to every combination of the include-filters.
SpecEvents == InitEvents /\ [][NextEvents]_vars

\* ------------------------------------------------------------ properties
\* The last call read a timeseries and returned it.
ReadReturned ==
    /\ ret.err = ""
    /\ \/ ret.op \in {"read_timeseries", "from_data"}
       \/ ret.op = "init" /\ ret.path # None /\ ~ret.noread

\* The last call made RamulatorReader read a timeseries file and returned.
FileReadReturned ==
    /\ ReadReturned
    /\ ret.op \in {"read_timeseries", "init"}

\* The number of columns of the held frame that carry a label.
Carrying(label) == Cardinality({i \in 1..Len(timeseries) : timeseries[i].name = label})

\* The held frame's column with the current time label, when there is one.
HeldTimes == timeseries[CHOOSE i \in 1..Len(timeseries) :
                            timeseries[i].name = time_column].data

\* The rows of the held frame that a window keeps, both ends included.
RowsWithin(tmin, tspan) ==
    {i \in 1..Len(HeldTimes) :
        /\ tmin.num * HeldTimes[i].den <= HeldTimes[i].num * tmin.den
        /\ tspan # None =>
              HeldTimes[i].num * tmin.den * tspan[1].den
                 <= (tmin.num * tspan[1].den + tspan[1].num * tmin.den) * HeldTimes[i].den}

\* The j-th smallest element of a set of row numbers.
Nth(S, j) == CHOOSE i \in S : Cardinality({k \in S : k <= i}) = j

\* Every listed label is a channel of the held frame, carried by one column.
ListsChannels(labels) ==
    \A k \in 1..Len(labels) : labels[k] # time_column /\ Carrying(labels[k]) = 1

\* C1: when the held frame has its time column, get_time_range returns, for
\* every tmin and tspan, exactly the rows with time >= tmin and (tspan given)
\* time <= tmin + tspan, both ends included, in their original order, and a
\* frame of zero rows rather than an error when no row qualifies.
C1_TimeRangeRows ==
    (/\ ret.op = "get_time_range"
     /\ Carrying(time_column) = 1
     /\ ret.channels # None => ListsChannels(ret.channels[1]))
    => /\ ret.err = ""
       /\ Len(ret.df) >= 1
       /\ LET kept == RowsWithin(ret.tmin, ret.tspan)
          IN \A c \in 1..Len(ret.df) :
               /\ Len(ret.df[c].data) = Cardinality(kept)
               /\ \E h \in 1..Len(timeseries) :
                    /\ timeseries[h].name = ret.df[c].name
                    /\ \A j \in 1..Cardinality(kept) :
                          ret.df[c].data[j] = timeseries[h].data[Nth(kept, j)]

\* A window with an upper end that keeps some rows of the held frame and
\* drops others.
C1_Witness ==
    /\ ret.op = "get_time_range"
    /\ Carrying(time_column) = 1
    /\ ret.tspan # None
    /\ ret.err = ""
    /\ NumRows(ret.df) > 0
    /\ NumRows(ret.df) < NumRows(timeseries)

\* C2: after a read that succeeded, the held frame has a time column named
\* by the reader's time-column label as it stood when the read completed.
C2_TimeColumnHasLabel ==
    ReadReturned => Carrying(time_column) >= 1

\* C3: the reader starts with an empty held frame; a read that succeeds
\* makes the held frame the frame it returns, which is never empty; every
\* other call (a read that fails, get_time_range, parse_events, the label
\* setter) leaves the held frame as it was.
C3_LastReadWins ==
    /\ timeseries = EmptyFrame
    /\ [][IF ReadReturned'
          THEN timeseries' = ret'.df /\ timeseries' # EmptyFrame
          ELSE timeseries' = timeseries]_vars

\* A read that fails on a reader that holds a frame from an earlier read.
C3_Witness ==
    /\ ret.op = "read_timeseries"
    /\ ret.err # ""
    /\ timeseries # EmptyFrame

\* C4: constructing a RamulatorReader on a path that does not exist, is no
\* directory, or is a directory without one of the required files raises
\* InvalidPathError and yields no reader.
C4_InvalidPath ==
    (/\ ret.op = "init"
     /\ cls = "RamulatorReader"
     /\ ret.path # None
     /\ ret.path[1].kind # "dir" \/ ~(RequiredFiles \subseteq ret.path[1].files))
    => ret.err = "InvalidPathError" /\ pc = "failed"

\* C5: a read by RamulatorReader asked for a channel-indexing mode other
\* than zero-based raises NotImplementedError.
C5_IndexingModeRejected ==
    (/\ cls = "RamulatorReader"
     /\ ret.mode \notin {"", "zero"}
     /\ \/ ret.op = "read_timeseries"
        \/ ret.op = "init" /\ ret.path # None /\ ret.path[1].kind = "dir" /\ ~ret.noread)
    => ret.err = "NotImplementedError"

\* C6: the frame read from a file with numSamples samples per channel has a
\* time column of that length with time[i] = i / 1000.
C6_TimeAxis ==
    FileReadReturned =>
        LET n == ret.path[1].numSamples
        IN /\ ret.df[1].name = "time"
           /\ Len(ret.df[1].data) = n
           /\ \A i \in 0..(n - 1) :
                 ret.df[1].data[i + 1].num * 1000 = i * ret.df[1].data[i + 1].den

\* The column name of the file's row with a given zero-based number.
NameOfRow(row) ==
    CASE FilePorts[row + 1] = 5 -> "port5" [] FilePorts[row + 1] = 12 -> "port12"

\* C7: the frame read for a list of zero-based rows (all rows for None) has,
\* after the time column, one column per listed row in list order, named
\* port<N> for the port N the file's ports array holds at that row, with
\* that row of the timeseries array as its data.
C7_PortColumns ==
    FileReadReturned =>
        LET rows == IF ret.channels = None
                    THEN [k \in 1..Len(FilePorts) |-> k - 1] ELSE ret.channels[1]
        IN /\ Len(ret.df) = 1 + Len(rows)
           /\ ret.df[1].name = "time"
           /\ \A k \in 1..Len(rows) :
                 /\ ret.df[k + 1].name = NameOfRow(rows[k])
                 /\ ret.df[k + 1].data =
                       FileTimeseries(ret.path[1].numSamples)[rows[k] + 1]

\* A read of the second row alone: its port is 12, its list position 0.
C7_Witness ==
    /\ FileReadReturned
    /\ ret.channels = Some(<<1>>)
    /\ ret.path[1].numSamples > 0
    /\ ret.df[2].name = "port12"

\* The held frame is one the data model allows: no two columns share a name.
DistinctColumns ==
    \A i, j \in 1..Len(timeseries) : timeseries[i].name = timeseries[j].name => i = j

\* Every listed label is a channel column present in the held frame.
ChannelsPresent(labels) ==
    \A k \in 1..Len(labels) : labels[k] # time_column /\ Carrying(labels[k]) >= 1

\* C8 as stated: once a frame (of distinct column names) is held, for every
\* list C of channel columns present in it get_time_range(channels=C)
\* returns the columns time label, then C; with no list it returns every
\* column of the held frame.
C8_TimeColumnKept ==
    (ret.op = "get_time_range" /\ timeseries # EmptyFrame /\ DistinctColumns) =>
        IF ret.channels = None
        THEN ret.err = "" /\ Columns(ret.df) = Columns(timeseries)
        ELSE ChannelsPresent(ret.channels[1])
             => /\ ret.err = ""
                /\ Columns(ret.df) = <<time_column>> \o ret.channels[1]

\* C8 amended: the same, provided the held frame has a column named by the
\* reader's current time-column label.
C8_TimeColumnKeptWhenPresent ==
    (/\ ret.op = "get_time_range"
     /\ DistinctColumns
     /\ Carrying(time_column) >= 1) =>
        IF ret.channels = None
        THEN ret.err = "" /\ Columns(ret.df) = Columns(timeseries)
        ELSE ChannelsPresent(ret.channels[1])
             => /\ ret.err = ""
                /\ Columns(ret.df) = <<time_column>> \o ret.channels[1]

\* Two channels asked for in the reverse of their order in the held frame.
C8_Witness ==
    /\ ret.op = "get_time_range"
    /\ DistinctColumns
    /\ Carrying(time_column) >= 1
    /\ ret.channels = Some(<<"port12", "port5">>)
    /\ ChannelsPresent(ret.channels[1])
    /\ Columns(ret.df) = <<"time", "port12", "port5">>

\* C9: from_data(times, data) with arrays of one length yields a reader
\* whose held frame has a "time" column equal to times, for every label of
\* data a column of that label equal to data[label], and no other column.
C9_FromDataRoundTrip ==
    (/\ ret.op = "from_data"
     /\ \A k \in 1..Len(ret.data) : Len(ret.data[k][2]) = Len(ret.times))
    => /\ ret.err = ""
       /\ pc = "live"
       /\ Len(timeseries) = 1 + Len(ret.data)
       /\ \E c \in 1..Len(timeseries) :
             timeseries[c].name = "time" /\ timeseries[c].data = ret.times
       /\ \A k \in 1..Len(ret.data) :
             \E c \in 1..Len(timeseries) :
                /\ timeseries[c].name = ret.data[k][1]
                /\ timeseries[c].data = ret.data[k][2]

\* The construction of the test: channel a ascending, channel b descending.
C9_Witness ==
    /\ ret.op = "from_data"
    /\ Len(ret.times) >= 2
    /\ ret.data = << <<"a", ret.times>>, <<"b", Reversed(ret.times)>> >>
    /\ pc = "live"
    /\ timeseries[3].data[Len(ret.times)] = RInt(0)

\* The entries of the index, one per task-events file.
IndexEntries ==
    {[subject |-> "R1001P", experiment |-> "FR1", session |-> 0,
      file |-> "R1001P/FR1/0.json"],
     [subject |-> "R1001P", experiment |-> "FR1", session |-> 1,
      file |-> "R1001P/FR1/1.json"],
     [subject |-> "R1001P", experiment |-> "PAL1", session |-> 0,
      file |-> "R1001P/PAL1/0.json"],
     [subject |-> "R1002P", experiment |-> "FR1", session |-> 0,
      file |-> "R1002P/FR1/0.json"],
     [subject |-> "R1002P", experiment |-> "FR1", session |-> 10,
      file |-> "R1002P/FR1/10.json"]}

Admits(filter, x) == filter = None \/ \E i \in 1..Len(filter[1]) : filter[1][i] = x

\* C10: read_events loads the task-events file of exactly the index entries
\* that every include-filter admits, a filter of None admitting everything
\* and the session filter being matched against the integer of the key.
C10_EventFilters ==
    re_out.done =>
        /\ {re_out.event_files[k] : k \in 1..Len(re_out.event_files)}
              = {e.file : e \in {x \in IndexEntries :
                    /\ Admits(re_in.subjects_to_read, x.subject)
                    /\ Admits(re_in.experiments_to_read, x.experiment)
                    /\ Admits(re_in.sessions_to_read, x.session)}}
        /\ \A j, k \in 1..Len(re_out.event_files) :
              re_out.event_files[j] = re_out.event_files[k] => j = k

\* One subject asked for: its events span both its experiments and sessions.
C10_Witness ==
    /\ re_out.done
    /\ re_in.subjects_to_read = Some(<<"R1001P">>)
    /\ re_in.experiments_to_read = None
    /\ re_in.sessions_to_read = None
    /\ Len(re_out.event_files) = 3
    /\ re_out.err = ""

====
